---------------------------- MODULE Spec2Model ----------------------------
(***************************************************************************)
(* SafeStreets CV backend (cv-backend/main.py): the pipeline that turns a  *)
(* per-pixel segmentation map into a sidewalk assessment, and the two HTTP *)
(* handlers /analyze and /analyze-batch built on it.                       *)
(*                                                                         *)
(* Representation.                                                         *)
(*  - A segmentation map (numpy array of class ids) is its row-major       *)
(*    run-length encoding: a sequence of runs [id, n].  The code reads     *)
(*    only .size, np.unique and the per-id counts, which this keeps.       *)
(*  - A percentage is a Python float, an IEEE 754 double: the division,    *)
(*    product, sum, comparisons and "%.1f" of the code are computed bit    *)
(*    for bit on [neg, m, e] records (see "Python floats" below).          *)
(*  - The builtin sum adds floats with Neumaier's compensation on CPython  *)
(*    from 3.12 and one after the other elsewhere; which of the two the    *)
(*    interpreter does is fixed when the service starts.                   *)
(*  - A dict is the sequence of its entries in insertion order.            *)
(*  - A raised exception is a record [raised |-> type, ...].               *)
(*  - An image_url is modelled by what fetching and classifying it yields. *)
(***************************************************************************)
EXTENDS Integers, Sequences, FiniteSets, TLC

VARIABLES
    model_loaded,   \* main.py:40  global model cache is filled
    compensated,    \* main.py:162 the interpreter's sum() compensates float additions
    pc,             \* "idle", or "batch" while analyze_batch runs its loop
    requests,       \* analyze_batch: its argument
    results,        \* analyze_batch: its local list
    idx,            \* analyze_batch: how many requests its loop has taken
    segmentation,   \* analyze_sidewalk: [map |-> the array], once the last call is at line 261
    analysis,       \* analyze_sidewalk: the last value of analyze_segmentation
    response        \* the response to the last request served

vars == <<model_loaded, compensated, pc, requests, results, idx, segmentation, analysis, response>>

-----------------------------------------------------------------------------
(* Tables, main.py:44-54 *)

CITYSCAPES_CLASSES ==
    << "road", "sidewalk", "building", "wall", "fence", "pole",
       "traffic light", "traffic sign", "vegetation", "terrain",
       "sky", "person", "rider", "car", "truck", "bus", "train",
       "motorcycle", "bicycle" >>

OBSTRUCTION_CLASSES == << "car", "truck", "bus", "motorcycle", "bicycle", "person" >>

\* A sentinel for "no value" (None, or a variable not yet assigned).
None == [none |-> TRUE]

-----------------------------------------------------------------------------
(* Python and numpy primitives the code uses *)

\* list[i] with Python's negative indices; IndexError outside [-len, len).
PyIndex(list, i) ==
    IF 0 <= i /\ i < Len(list) THEN [raised |-> "", value |-> list[i + 1]]
    ELSE IF -Len(list) <= i /\ i < 0 THEN [raised |-> "", value |-> list[Len(list) + i + 1]]
    ELSE [raised |-> "IndexError", message |-> "list index out of range"]

RECURSIVE ArraySize(_)
\* ndarray.size
ArraySize(map) ==
    IF map = <<>> THEN 0 ELSE Head(map).n + ArraySize(Tail(map))

RECURSIVE CountEqual(_, _)
\* np.sum(map == class_id)
CountEqual(map, class_id) ==
    IF map = <<>> THEN 0
    ELSE (IF Head(map).id = class_id THEN Head(map).n ELSE 0) + CountEqual(Tail(map), class_id)

RECURSIVE Ascending(_)
Ascending(S) ==
    IF S = {} THEN <<>>
    ELSE LET m == CHOOSE x \in S : \A y \in S : x <= y
         IN  <<m>> \o Ascending(S \ {m})

\* np.unique(map): the distinct values, sorted.
Unique(map) == Ascending({ map[i].id : i \in { j \in 1..Len(map) : map[j].n > 0 } })

\* dict helpers: entries [key, value] in insertion order.
HasKey(dict, key) == \E i \in 1..Len(dict) : dict[i].key = key

Lookup(dict, key) == dict[CHOOSE i \in 1..Len(dict) : dict[i].key = key].value

\* dict[key] = value: a present key keeps its place.
Store(dict, key, value) ==
    IF HasKey(dict, key)
    THEN [i \in 1..Len(dict) |-> IF dict[i].key = key THEN [key |-> key, value |-> value] ELSE dict[i]]
    ELSE Append(dict, [key |-> key, value |-> value])

-----------------------------------------------------------------------------
(* Python floats, main.py:123, 162, 194: IEEE 754 binary64, round to nearest, *)
(* ties to even.  A float is [neg, m, e] with value (-1)^neg * m * 2^e; m is  *)
(* a natural of exactly 53 bits (0.0 has m = << >>, e = 0, neg = FALSE), held *)
(* as its digits in base 2^14, the least significant first.  Equal floats are *)
(* equal records.  Overflow, subnormals and -0.0 are out of reach of          *)
(* percentages and are not modelled.                                          *)

Base == 2^14

\* F(x) with x worked out once, however often F uses it.
With(F(_), x) == CHOOSE y \in { F(v) : v \in {x} } : TRUE

RECURSIVE BigFromInt(_)
\* The digits of a natural n.
BigFromInt(n) == IF n = 0 THEN << >> ELSE << n % Base >> \o BigFromInt(n \div Base)

RECURSIVE BigToInt(_)
BigToInt(a) == IF a = << >> THEN 0 ELSE Head(a) + Base * BigToInt(Tail(a))

RECURSIVE BigNorm(_)
\* Without leading zero digits.
BigNorm(a) ==
    IF a = << >> THEN << >>
    ELSE IF a[Len(a)] = 0 THEN BigNorm(SubSeq(a, 1, Len(a) - 1)) ELSE a

RECURSIVE BigMulSmall(_, _, _)
\* a * k + carry, for k <= 2^16.
BigMulSmall(a, k, carry) ==
    IF a = << >> THEN BigFromInt(carry)
    ELSE LET t == Head(a) * k + carry
         IN  << t % Base >> \o BigMulSmall(Tail(a), k, t \div Base)

RECURSIVE BigAdd(_, _, _)
\* a + b + carry
BigAdd(a, b, carry) ==
    IF a = << >> /\ b = << >> THEN BigFromInt(carry)
    ELSE LET x == IF a = << >> THEN 0 ELSE Head(a)
             y == IF b = << >> THEN 0 ELSE Head(b)
             t == x + y + carry
         IN  << t % Base >> \o BigAdd(IF a = << >> THEN a ELSE Tail(a),
                                      IF b = << >> THEN b ELSE Tail(b), t \div Base)

RECURSIVE BigSubFrom(_, _, _)
BigSubFrom(a, b, borrow) ==
    IF a = << >> THEN << >>
    ELSE LET y == IF b = << >> THEN 0 ELSE Head(b)
             t == Head(a) - y - borrow
         IN  << (t + Base) % Base >>
             \o BigSubFrom(Tail(a), IF b = << >> THEN b ELSE Tail(b), IF t < 0 THEN 1 ELSE 0)

\* a - b, for a >= b.
BigSub(a, b) == BigNorm(BigSubFrom(a, b, 0))

RECURSIVE BigCmpFrom(_, _, _)
BigCmpFrom(a, b, k) ==
    IF k = 0 THEN 0
    ELSE IF a[k] > b[k] THEN 1
    ELSE IF a[k] < b[k] THEN -1
    ELSE BigCmpFrom(a, b, k - 1)

\* -1, 0, 1 as a < b, a = b, a > b.
BigCmp(a, b) ==
    IF Len(a) > Len(b) THEN 1
    ELSE IF Len(a) < Len(b) THEN -1
    ELSE BigCmpFrom(a, b, Len(a))

RECURSIVE BigDivFrom(_, _, _, _, _)
BigDivFrom(a, d, k, rem, quot) ==
    IF k = 0 THEN BigNorm(quot)
    ELSE LET t == rem * Base + a[k]
         IN  BigDivFrom(a, d, k - 1, t % d, << t \div d >> \o quot)

\* a div d, for 0 < d <= 2^14.
BigDivSmall(a, d) == BigDivFrom(a, d, Len(a), 0, << >>)

RECURSIVE IntBits(_)
\* The number of bits of a natural n.
IntBits(n) == IF n = 0 THEN 0 ELSE 1 + IntBits(n \div 2)

\* The number of bits of a.
BitLen(a) == IF a = << >> THEN 0 ELSE 14 * (Len(a) - 1) + IntBits(a[Len(a)])

\* a * 2^s
ShiftLeft(a, s) ==
    IF a = << >> THEN << >>
    ELSE [k \in 1..(s \div 14) |-> 0] \o BigMulSmall(a, 2^(s % 14), 0)

\* a div 2^s
ShiftRight(a, s) ==
    IF Len(a) <= s \div 14 THEN << >>
    ELSE BigDivSmall(SubSeq(a, (s \div 14) + 1, Len(a)), 2^(s % 14))

\* a mod 2^s
LowBits(a, s) ==
    IF Len(a) <= s \div 14 THEN a
    ELSE BigNorm(SubSeq(a, 1, s \div 14) \o << a[(s \div 14) + 1] % 2^(s % 14) >>)

IsOdd(a) == a # << >> /\ a[1] % 2 = 1

\* 0.0, and the int 0 where the code compares, adds or formats it as a number.
Zero == [neg |-> FALSE, m |-> << >>, e |-> 0]

\* The float nearest to n * 2^e, ties to even.  With sticky the value rounded is
\* a little above n * 2^e, by less than 2^e, and n has more than 54 bits.
Round(n, e, sticky) ==
    With(LAMBDA digits :
           LET len == BitLen(digits) IN
           IF digits = << >> THEN Zero
           ELSE IF len <= 53
           THEN [neg |-> FALSE, m |-> ShiftLeft(digits, 53 - len), e |-> e - (53 - len)]
           ELSE
             LET s    == len - 53
                 q    == ShiftRight(digits, s)
                 half == BigCmp(LowBits(digits, s), ShiftLeft(<< 1 >>, s - 1))
                 up   == half > 0 \/ (half = 0 /\ (sticky \/ IsOdd(q)))
                 q1   == IF up THEN BigAdd(q, << 1 >>, 0) ELSE q
             IN  IF BitLen(q1) > 53 THEN [neg |-> FALSE, m |-> ShiftRight(q1, 1), e |-> e + s + 1]
                 ELSE [neg |-> FALSE, m |-> q1, e |-> e + s],
         n)

\* The float of an int n >= 0, as in a comparison of a float with the literal n.
Float(n) == Round(BigFromInt(n), 0, FALSE)

\* The literal 0.5
Half == Round(<< 1 >>, -1, FALSE)

\* -x
Negate(x) == With(LAMBDA v : IF v = Zero THEN Zero ELSE [v EXCEPT !.neg = ~v.neg], x)

Lower(x, y) == IF x < y THEN x ELSE y

\* abs(a) against abs(b): -1, 0, 1.
MagCmp(a, b) ==
    With(LAMBDA p :
           LET e0 == Lower(p[1].e, p[2].e)
           IN  BigCmp(ShiftLeft(p[1].m, p[1].e - e0), ShiftLeft(p[2].m, p[2].e - e0)),
         << a, b >>)

\* a against b: -1, 0, 1.
FloatCmp(a, b) ==
    With(LAMBDA p :
           IF p[1].neg /\ ~p[2].neg THEN -1
           ELSE IF ~p[1].neg /\ p[2].neg THEN 1
           ELSE IF p[1].neg THEN MagCmp(p[2], p[1]) ELSE MagCmp(p[1], p[2]),
         << a, b >>)

\* a > b
Gt(a, b) == FloatCmp(a, b) > 0

\* a >= b
Ge(a, b) == FloatCmp(a, b) >= 0

\* a + b
FloatAdd(a, b) ==
    With(LAMBDA p :
           LET e0  == Lower(p[1].e, p[2].e)
               A   == ShiftLeft(p[1].m, p[1].e - e0)
               B   == ShiftLeft(p[2].m, p[2].e - e0)
               cmp == BigCmp(A, B)
           IN  IF p[1].neg = p[2].neg
               THEN [Round(BigAdd(A, B, 0), e0, FALSE) EXCEPT !.neg = p[1].neg /\ A # << >>]
               ELSE IF cmp = 0 THEN Zero
               ELSE IF cmp > 0 THEN [Round(BigSub(A, B), e0, FALSE) EXCEPT !.neg = p[1].neg]
               ELSE [Round(BigSub(B, A), e0, FALSE) EXCEPT !.neg = p[2].neg],
         << a, b >>)

\* a - b
FloatSub(a, b) == FloatAdd(a, Negate(b))

\* a * k for a float a >= 0 and an int 0 < k <= 2^16
FloatMulInt(a, k) == With(LAMBDA v : Round(BigMulSmall(v.m, k, 0), v.e, FALSE), a)

RECURSIVE DivDigits(_, _, _, _, _)
\* steps more digits in base 2^k of a quotient by d, after the digits quot, rem left.
DivDigits(rem, d, k, steps, quot) ==
    IF steps = 0 THEN [q |-> quot, r |-> rem]
    ELSE With(LAMBDA p : DivDigits(p[1] % d, d, k, steps - 1, BigMulSmall(p[2], 2^k, p[1] \div d)),
              << rem * 2^k, quot >>)

\* c / d for ints 0 <= c and 0 < d < 2^30: the quotient to 98 binary places or
\* more, what is left of it being sticky, then rounded.
FloatDivInts(c, d) ==
    LET k     == Lower(14, 31 - IntBits(d))
        steps == (98 + k - 1) \div k
    IN  With(LAMBDA qr : Round(qr.q, -(steps * k), qr.r # 0),
             DivDigits(c % d, d, k, steps, BigFromInt(c \div d)))

\* f"{x:.1f}" of a float x >= 0: the decimal with one digit nearest to x, ties to
\* even.
FormatPct(x) ==
    With(LAMBDA v :
           LET n      == BigMulSmall(v.m, 10, 0)
               s      == -v.e
               q      == IF s <= 0 THEN ShiftLeft(n, -s) ELSE ShiftRight(n, s)
               half   == IF s <= 0 THEN -1 ELSE BigCmp(LowBits(n, s), ShiftLeft(<< 1 >>, s - 1))
               up     == half > 0 \/ (half = 0 /\ IsOdd(q))
           IN  With(LAMBDA tenths : ToString(tenths \div 10) \o "." \o ToString(tenths % 10),
                    BigToInt(q) + (IF up THEN 1 ELSE 0)),
         x)

RECURSIVE PlainSum(_, _)
\* sum(items) where floats are added one after the other.
PlainSum(items, f_result) ==
    IF items = << >> THEN f_result
    ELSE With(LAMBDA t : PlainSum(Tail(items), t), FloatAdd(f_result, Head(items)))

RECURSIVE NeumaierSum(_, _, _)
\* sum(items) where floats are added with Neumaier's compensation c.
NeumaierSum(items, f_result, c) ==
    IF items = << >> THEN (IF c # Zero THEN FloatAdd(f_result, c) ELSE f_result)
    ELSE LET x == Head(items) IN
         With(LAMBDA t :
                With(LAMBDA lost : NeumaierSum(Tail(items), t, lost),
                     FloatAdd(c, IF MagCmp(f_result, x) >= 0
                                 THEN FloatAdd(FloatSub(f_result, t), x)
                                 ELSE FloatAdd(FloatSub(x, t), f_result))),
              FloatAdd(f_result, x))

-----------------------------------------------------------------------------
(* analyze_segmentation, main.py:113-149 *)

\* (pixel_count / total_pixels) * 100
Percentage(pixel_count, total_pixels) == FloatMulInt(FloatDivInts(pixel_count, total_pixels), 100)

\* A floor that lets a class at exactly 0.5% through.
IsSignificant_AtLeast(percentage) == Ge(percentage, Half)

\* main.py:125  the floor under which a class is not counted
IsSignificant(percentage) == Gt(percentage, Half)

RECURSIVE CountClasses(_, _, _)
\* The loop of lines 119-129 over the ids still to visit.
CountClasses(map, ids, class_pixel_counts) ==
    IF ids = <<>> THEN [raised |-> "", value |-> class_pixel_counts]
    ELSE
      LET class_id == Head(ids) IN
      IF class_id < Len(CITYSCAPES_CLASSES)
      THEN
        LET class_name == PyIndex(CITYSCAPES_CLASSES, class_id) IN
        IF class_name.raised # "" THEN class_name
        ELSE
          LET pixel_count == CountEqual(map, class_id) IN
          With(LAMBDA percentage :
                 With(LAMBDA counts : CountClasses(map, Tail(ids), counts),
                      IF IsSignificant(percentage)
                      THEN Store(class_pixel_counts, class_name.value,
                                 [pixels |-> pixel_count, percentage |-> percentage])
                      ELSE class_pixel_counts),
               Percentage(pixel_count, ArraySize(map)))
      ELSE CountClasses(map, Tail(ids), class_pixel_counts)

\* class_pixel_counts.get(name, {}).get('percentage', 0)
GetPercentage(class_pixel_counts, name) ==
    IF HasKey(class_pixel_counts, name) THEN Lookup(class_pixel_counts, name).percentage ELSE Zero

\* Obstructions taken in the dict's own order.
CollectObstructions_DictOrder(class_pixel_counts) ==
    LET present == SelectSeq(class_pixel_counts,
                             LAMBDA e : \E k \in 1..Len(OBSTRUCTION_CLASSES) : OBSTRUCTION_CLASSES[k] = e.key)
    IN  [k \in 1..Len(present) |->
            [class |-> present[k].key, percentage |-> present[k].value.percentage]]

\* Lines 136-142: one obstruction per obstruction class counted, in the order of
\* OBSTRUCTION_CLASSES.
CollectObstructions(class_pixel_counts) ==
    LET present == SelectSeq(OBSTRUCTION_CLASSES, LAMBDA c : HasKey(class_pixel_counts, c))
    IN  [k \in 1..Len(present) |->
            [class |-> present[k], percentage |-> Lookup(class_pixel_counts, present[k]).percentage]]

analyze_segmentation(segmentation_map) ==
    With(LAMBDA counted :
           IF counted.raised # "" THEN counted
           ELSE [raised |-> "",
                 value  |-> [sidewalk_percentage |-> GetPercentage(counted.value, "sidewalk"),
                             road_percentage     |-> GetPercentage(counted.value, "road"),
                             obstructions        |-> CollectObstructions(counted.value),
                             class_distribution  |-> counted.value]],
         CountClasses(segmentation_map, Unique(segmentation_map), <<>>))

-----------------------------------------------------------------------------
(* determine_quality, main.py:152-196 *)

\* sum(obs['percentage'] for obs in obstructions), from the int 0
SumPercentage(obstructions) ==
    With(LAMBDA items : IF compensated THEN NeumaierSum(items, Zero, Zero) ELSE PlainSum(items, Zero),
         [k \in 1..Len(obstructions) |-> obstructions[k].percentage])

\* main.py:156
SidewalkDetected(sidewalk_pct) == Gt(sidewalk_pct, Float(5))

\* The bands with the heavy-obstruction test off by one: 15% counts as blocking.
Band_Blocking15(sidewalk_pct, obstructions) ==
    With(LAMBDA total_obstruction_pct :
       IF Gt(sidewalk_pct, Float(20)) THEN
           IF Ge(total_obstruction_pct, Float(15)) THEN
               [quality |-> "poor", confidence |-> "high",
                issues |-> << ToString(Len(obstructions)) \o " obstruction(s) detected blocking sidewalk" >>]
           ELSE IF Gt(total_obstruction_pct, Float(5)) THEN
               [quality |-> "fair", confidence |-> "medium",
                issues |-> << "Minor obstructions detected on sidewalk" >>]
           ELSE
               [quality |-> "good", confidence |-> "high", issues |-> << >>]
       ELSE IF Gt(sidewalk_pct, Float(10)) THEN
           [quality |-> "fair", confidence |-> "medium",
            issues |-> IF Gt(total_obstruction_pct, Float(10))
                       THEN << "Sidewalk partially visible with obstructions" >>
                       ELSE << "Sidewalk partially visible" >>]
       ELSE
           [quality |-> "poor", confidence |-> "medium",
            issues |-> << "Limited sidewalk visible in image" >>],
         SumPercentage(obstructions))

\* The bands with a low confidence for a wide sidewalk with minor obstructions.
Band_MinorLow(sidewalk_pct, obstructions) ==
    With(LAMBDA total_obstruction_pct :
       IF Gt(sidewalk_pct, Float(20)) THEN
           IF Gt(total_obstruction_pct, Float(15)) THEN
               [quality |-> "poor", confidence |-> "high",
                issues |-> << ToString(Len(obstructions)) \o " obstruction(s) detected blocking sidewalk" >>]
           ELSE IF Gt(total_obstruction_pct, Float(5)) THEN
               [quality |-> "fair", confidence |-> "low",
                issues |-> << "Minor obstructions detected on sidewalk" >>]
           ELSE
               [quality |-> "good", confidence |-> "high", issues |-> << >>]
       ELSE IF Gt(sidewalk_pct, Float(10)) THEN
           [quality |-> "fair", confidence |-> "medium",
            issues |-> IF Gt(total_obstruction_pct, Float(10))
                       THEN << "Sidewalk partially visible with obstructions" >>
                       ELSE << "Sidewalk partially visible" >>]
       ELSE
           [quality |-> "poor", confidence |-> "medium",
            issues |-> << "Limited sidewalk visible in image" >>],
         SumPercentage(obstructions))

\* Lines 164-189: quality, confidence and the issue of the band.
Band(sidewalk_pct, obstructions) ==
    With(LAMBDA total_obstruction_pct :
       IF Gt(sidewalk_pct, Float(20)) THEN
           IF Gt(total_obstruction_pct, Float(15)) THEN
               [quality |-> "poor", confidence |-> "high",
                issues |-> << ToString(Len(obstructions)) \o " obstruction(s) detected blocking sidewalk" >>]
           ELSE IF Gt(total_obstruction_pct, Float(5)) THEN
               [quality |-> "fair", confidence |-> "medium",
                issues |-> << "Minor obstructions detected on sidewalk" >>]
           ELSE
               [quality |-> "good", confidence |-> "high", issues |-> << >>]
       ELSE IF Gt(sidewalk_pct, Float(10)) THEN
           [quality |-> "fair", confidence |-> "medium",
            issues |-> IF Gt(total_obstruction_pct, Float(10))
                       THEN << "Sidewalk partially visible with obstructions" >>
                       ELSE << "Sidewalk partially visible" >>]
       ELSE
           [quality |-> "poor", confidence |-> "medium",
            issues |-> << "Limited sidewalk visible in image" >>],
         SumPercentage(obstructions))

\* main.py:193  an obstruction with an issue line of its own
IsBlocking(obs) == Gt(obs.percentage, Float(5))

\* Lines 192-194
ObstructionIssues(obstructions) ==
    LET blocking == SelectSeq(obstructions, IsBlocking)
    IN  [k \in 1..Len(blocking) |->
            blocking[k].class \o " detected (" \o FormatPct(blocking[k].percentage) \o "% of image)"]

determine_quality(sidewalk_pct, obstructions) ==
    IF ~SidewalkDetected(sidewalk_pct)
    THEN [quality |-> "none", confidence |-> "low", issues |-> << "No sidewalk visible in image" >>]
    ELSE With(LAMBDA band : [quality |-> band.quality, confidence |-> band.confidence,
                             issues |-> band.issues \o ObstructionIssues(obstructions)],
              Band(sidewalk_pct, obstructions))

-----------------------------------------------------------------------------
(* analyze_sidewalk, main.py:228-305 *)

\* main.py:275  a class with a detection of its own
IsReported(percentage) == Gt(percentage, Float(1))

\* The literal 0.85
SEGFORMER_CONFIDENCE == FloatDivInts(85, 100)

\* Lines 273-280: one Detection per reported entry, in the dict's order.
BuildDetections(class_distribution) ==
    LET reported == SelectSeq(class_distribution, LAMBDA e : IsReported(e.value.percentage))
    IN  [k \in 1..Len(reported) |->
            [class_name |-> reported[k].key, confidence |-> SEGFORMER_CONFIDENCE,
             pixel_percentage |-> reported[k].value.percentage]]

\* Lines 283-285
Notes(sidewalk_detected, sidewalk_percentage, obstruction_count) ==
    "AI detected: "
    \o (IF sidewalk_detected
        THEN "sidewalk present (" \o FormatPct(sidewalk_percentage) \o "% of image)"
        ELSE "no sidewalk")
    \o ", " \o ToString(obstruction_count) \o " obstruction(s)"

\* The classifier's issues as they are.
ExposedIssues_Raw(issues) == issues

\* main.py:291
ExposedIssues(issues) == IF issues # <<>> THEN issues ELSE << "No issues detected" >>

\* Lines 264-295: the AnalysisResult of a segmentation analysed without error.
BuildResult(image_id, found) ==
    With(LAMBDA verdict :
           LET sidewalk_detected == verdict.quality # "none"
           IN  [imageId          |-> image_id,
                sidewalkDetected |-> sidewalk_detected,
                confidence       |-> verdict.confidence,
                issues           |-> ExposedIssues(verdict.issues),
                quality          |-> verdict.quality,
                notes            |-> Notes(sidewalk_detected, found.sidewalk_percentage,
                                           Len(found.obstructions)),
                detections       |-> BuildDetections(found.class_distribution)],
         determine_quality(found.sidewalk_percentage, found.obstructions))

HTTPException(status_code, detail) ==
    [raised |-> "HTTPException", status_code |-> status_code, detail |-> detail]

\* fetch_image, main.py:101-110: the image, or HTTPException 400.
fetch_image(url) ==
    IF url.kind = "fetch_error"
    THEN HTTPException(400, "Failed to fetch image: " \o url.error)
    ELSE [raised |-> "", value |-> url]

\* Lines 249-261: the processor and the model on the fetched image.
Classify(image) ==
    IF image.kind = "classify_error"
    THEN [raised |-> "Exception", message |-> image.error]
    ELSE [raised |-> "", value |-> image.segmentation]

\* str(e)
ExceptionText(e) ==
    IF e.raised = "HTTPException" THEN ToString(e.status_code) \o ": " \o e.detail
    ELSE e.message

\* Lines 301-305: an HTTPException passes, anything else becomes a 500.
Reraise(e) ==
    IF e.raised = "HTTPException" THEN e
    ELSE HTTPException(500, "Analysis failed: " \o ExceptionText(e))

analyze_sidewalk(request) ==
    LET image == fetch_image(request.image_url) IN
    IF image.raised # "" THEN Reraise(image)
    ELSE
      LET map == Classify(image.value) IN
      IF map.raised # "" THEN Reraise(map)
      ELSE
        With(LAMBDA found :
               IF found.raised # "" THEN Reraise(found)
               ELSE [raised |-> "", value |-> BuildResult(request.image_id, found.value)],
             analyze_segmentation(map.value))

\* The segmentation map the call reaches line 261 with, if it does.
SegmentationOf(request) ==
    IF request.image_url.kind = "image" THEN [map |-> request.image_url.segmentation] ELSE None

\* The value line 264 assigns, if the call gets that far without raising.
AnalysisOf(request) ==
    IF request.image_url.kind # "image" THEN None
    ELSE With(LAMBDA found : IF found.raised # "" THEN None ELSE found.value,
              analyze_segmentation(request.image_url.segmentation))

\* What FastAPI answers for a handler's outcome.
HttpResponse(outcome) ==
    With(LAMBDA o :
           IF o.raised = ""
           THEN [status |-> 200, body |-> o.value]
           ELSE [status |-> o.status_code, body |-> [detail |-> o.detail]],
         outcome)

-----------------------------------------------------------------------------
(* analyze_batch, main.py:308-332 *)

\* A slice that forgets the limit.
BatchSlice_Unbounded(reqs) == reqs

\* main.py:315  requests[:10]
BatchSlice(reqs) == SubSeq(reqs, 1, IF Len(reqs) < 10 THEN Len(reqs) ELSE 10)

\* Lines 322-330: the result that stands for a request whose analysis raised.
ErrorResult(req, e) ==
    [imageId          |-> req.image_id,
     sidewalkDetected |-> FALSE,
     confidence       |-> "low",
     issues           |-> << "Analysis error: " \o ExceptionText(e) >>,
     quality          |-> "none",
     notes            |-> "Error during automated analysis",
     detections       |-> << >>]

\* A loop that reports nothing for a request whose analysis raised.
BatchAppend_SkipFailed(acc, req) ==
    With(LAMBDA outcome : IF outcome.raised = "" THEN Append(acc, outcome.value) ELSE acc,
         analyze_sidewalk(req))

\* Lines 316-330: one turn of the loop.
BatchAppend(acc, req) ==
    With(LAMBDA outcome :
           Append(acc, IF outcome.raised = "" THEN outcome.value ELSE ErrorResult(req, outcome)),
         analyze_sidewalk(req))

-----------------------------------------------------------------------------
(* Inputs *)

\* The longest request list handed to analyze_batch.
MaxBatch == 12

\* A 20 x 20 image: one pixel is a quarter of a percent of it.
ImagePixels == 20 * 20

\* A 256 x 256 image: 328 pixels are a little more than 0.5% of it.
LargePixels == 256 * 256

Sky == 10

\* Pixel counts around the thresholds 0.5%, 1%, 5%, 10%, 15% and 20%, and counts
\* whose percentage is not the exact one: 28 gives 7.000000000000001 and 56 gives
\* 14.000000000000002, so that 56 and 4 pixels sum to more than 15, and 4, 28 and
\* 28 pixels to 15.000000000000002 with compensation and to 15.0 without.
SidewalkCounts == {0, 2, 20, 21, 40, 41, 80, 81}
CarCounts      == {0, 3, 4, 20, 21, 40, 56}
TruckCounts    == {0, 4, 20, 21, 28}
PersonCounts   == {0, 2, 21, 28}

\* Ids the vocabulary does not hold: above it, and below zero.
StrayIds == {19, 25, -1, -6, -18, -20}

Reverse(seq) == [k \in 1..Len(seq) |-> seq[Len(seq) + 1 - k]]

\* An image with the given pixel counts, the rest sky.
Scene(sidewalk, car, truck, person, stray_id, stray) ==
    SelectSeq(<< [id |-> 1,  n |-> sidewalk],
                 [id |-> 11, n |-> person],
                 [id |-> 13, n |-> car],
                 [id |-> 14, n |-> truck],
                 [id |-> stray_id, n |-> stray],
                 [id |-> Sky, n |-> ImagePixels - (sidewalk + car + truck + person + stray)] >>,
              LAMBDA run : run.n > 0)

Counts == SidewalkCounts \X CarCounts \X TruckCounts \X PersonCounts

\* Scenes of known classes, and scenes with 30 pixels of a stray id.
Scenes ==
    { Scene(q[1], q[2], q[3], q[4], Sky, 0) : q \in Counts }
    \cup { Scene(sidewalk, car, 0, 0, x, 30) :
             sidewalk \in SidewalkCounts, car \in {0, 21}, x \in StrayIds }

\* Arrays of other sizes: no pixel at all, one pixel, three pixels (a third is
\* 33.33333333333333%), 2 x 2, and 256 x 256 with a person on 328 pixels.
SmallMaps ==
    { << >>,
      << [id |-> 1, n |-> 1] >>,
      << [id |-> 1, n |-> 1], [id |-> 13, n |-> 2] >>,
      << [id |-> 1, n |-> 16384], [id |-> 11, n |-> 328], [id |-> Sky, n |-> LargePixels - 16712] >>,
      << [id |-> -1, n |-> 1], [id |-> 1, n |-> 3] >>,
      << [id |-> -18, n |-> 4] >>,
      << [id |-> -20, n |-> 1], [id |-> 1, n |-> 3] >>,
      << [id |-> 19, n |-> 2], [id |-> 1, n |-> 1], [id |-> 13, n |-> 1] >> }

LabelMaps == Scenes \cup { Reverse(m) : m \in Scenes } \cup SmallMaps

Image(map) == [kind |-> "image", error |-> "", segmentation |-> map]

FetchFailure(text) == [kind |-> "fetch_error", error |-> text, segmentation |-> << >>]

ClassifyFailure(text) == [kind |-> "classify_error", error |-> text, segmentation |-> << >>]

Failures ==
    { FetchFailure("404 Client Error: Not Found"),
      ClassifyFailure("CUDA out of memory") }

ImageUrls == Failures \cup { Image(m) : m \in LabelMaps }

ImageIds == { "img_a", "img_b" }

\* The urls of the batches: the failures, a clear sidewalk, a blocked one, an
\* array with no pixel, one whose analysis raises.
BatchUrls ==
    Failures \cup
    { Image(Scene(100, 0, 0, 0, 19, 0)),
      Image(Scene(100, 40, 0, 0, 19, 0)),
      Image(<< >>),
      Image(<< [id |-> -20, n |-> 1], [id |-> 1, n |-> 3] >>) }

\* The list of n requests that alternates a and b.
Alternate(a, b, n) == [k \in 1..n |-> IF k % 2 = 1 THEN a ELSE b]

\* Lists of up to MaxBatch requests, of two images under two ids.
BatchInputs ==
    { Alternate([image_url |-> a, image_id |-> "img_a"], [image_url |-> b, image_id |-> "img_b"], n) :
        a \in BatchUrls, b \in BatchUrls, n \in 0..MaxBatch }

-----------------------------------------------------------------------------
(* The service *)

Init ==
    /\ model_loaded = FALSE
    /\ compensated \in BOOLEAN
    /\ pc = "idle"
    /\ requests = << >>
    /\ results = << >>
    /\ idx = 0
    /\ segmentation = None
    /\ analysis = None
    /\ response = None

Ready == pc = "idle" /\ response = None

\* startup_event, main.py:199-203
Startup ==
    /\ Ready
    /\ ~model_loaded
    /\ model_loaded' = TRUE
    /\ UNCHANGED <<compensated, pc, requests, results, idx, segmentation, analysis, response>>

\* health, main.py:217-225
Health ==
    /\ Ready
    /\ response' = [endpoint |-> "/health", status |-> 200,
                    body |-> [status |-> "healthy", model_loaded |-> model_loaded]]
    /\ UNCHANGED <<model_loaded, compensated, pc, requests, results, idx, segmentation, analysis>>

\* POST /analyze: analyze_sidewalk as a handler; load_model fills the cache.
Analyze ==
    /\ Ready
    /\ \E url \in ImageUrls, id \in ImageIds :
         LET request == [image_url |-> url, image_id |-> id] IN
         /\ response' = [endpoint |-> "/analyze"] @@ HttpResponse(analyze_sidewalk(request))
         /\ segmentation' = SegmentationOf(request)
         /\ analysis' = AnalysisOf(request)
    /\ model_loaded' = TRUE
    /\ UNCHANGED <<compensated, pc, requests, results, idx>>

\* POST /analyze-batch, main.py:314
BatchStart ==
    /\ Ready
    /\ \E reqs \in BatchInputs : requests' = reqs
    /\ results' = << >>
    /\ idx' = 0
    /\ pc' = "batch"
    /\ UNCHANGED <<model_loaded, compensated, segmentation, analysis, response>>

\* main.py:315-330, one request of the slice
BatchItem ==
    /\ pc = "batch"
    /\ idx < Len(BatchSlice(requests))
    /\ LET req == BatchSlice(requests)[idx + 1] IN
         /\ results' = BatchAppend(results, req)
         /\ segmentation' = SegmentationOf(req)
         /\ analysis' = AnalysisOf(req)
    /\ idx' = idx + 1
    /\ model_loaded' = TRUE
    /\ UNCHANGED <<compensated, pc, requests, response>>

\* main.py:332
BatchReturn ==
    /\ pc = "batch"
    /\ idx >= Len(BatchSlice(requests))
    /\ response' = [endpoint |-> "/analyze-batch", status |-> 200, body |-> results]
    /\ pc' = "idle"
    /\ UNCHANGED <<model_loaded, compensated, requests, results, idx, segmentation, analysis>>

\* The response is sent; the handler's locals are gone.
Reply ==
    /\ pc = "idle"
    /\ response # None
    /\ response' = None
    /\ requests' = << >>
    /\ results' = << >>
    /\ idx' = 0
    /\ segmentation' = None
    /\ analysis' = None
    /\ UNCHANGED <<model_loaded, compensated, pc>>

Next ==
    \/ Startup
    \/ Health
    \/ Analyze
    \/ BatchStart
    \/ BatchItem
    \/ BatchReturn
    \/ Reply

Spec == Init /\ [][Next]_vars

-----------------------------------------------------------------------------
(* Properties *)

AnalyzeAnswered == response # None /\ response.endpoint = "/analyze"

BatchAnswered == response # None /\ response.endpoint = "/analyze-batch"

Smaller(a, b) == IF a < b THEN a ELSE b

\* C1: analyze_batch never fails and answers with exactly min(n, 10) results, the
\* i-th carrying the imageId of the i-th request, whichever items fail; requests
\* past the tenth are never taken.
BatchOrderAndCount ==
    /\ pc = "batch" =>
         /\ idx <= 10
         /\ Len(results) = idx
         /\ \A i \in 1..Len(results) : results[i].imageId = requests[i].image_id
    /\ BatchAnswered =>
         /\ response.status = 200
         /\ Len(response.body) = Smaller(Len(requests), 10)
         /\ \A i \in 1..Len(response.body) : response.body[i].imageId = requests[i].image_id

\* A batch of 12 with failing items, answered with 10 results.
BatchTruncatedWitness ==
    /\ BatchAnswered
    /\ Len(requests) = 12
    /\ Len(response.body) = 10
    /\ requests[1].image_id # requests[2].image_id
    /\ response.body[2].notes = "Error during automated analysis"
    /\ response.body[1].quality = "good"

\* The result the batch substitutes for request req that failed with the text given.
Degraded(req, text) ==
    [imageId          |-> req.image_id,
     sidewalkDetected |-> FALSE,
     confidence       |-> "low",
     issues           |-> << "Analysis error: " \o text >>,
     quality          |-> "none",
     notes            |-> "Error during automated analysis",
     detections       |-> << >>]

\* C2: in a batch, an item whose analysis fails yields the degraded result with the
\* failure's text at its place, and every other item yields exactly what
\* analyze_sidewalk returns for it alone.
BatchFailureIsolated ==
    \A i \in 1..Len(results) :
        LET alone == analyze_sidewalk(requests[i]) IN
        IF alone.raised # ""
        THEN results[i] = Degraded(requests[i], ToString(alone.status_code) \o ": " \o alone.detail)
        ELSE results[i] = alone.value

\* Item 2 of 3 fails on the fetch; items 1 and 3 are analysed as usual.
BatchFailureWitness ==
    /\ BatchAnswered
    /\ Len(response.body) = 3
    /\ response.body[2].issues =
         << "Analysis error: 400: Failed to fetch image: 404 Client Error: Not Found" >>
    /\ response.body[2].quality = "none"
    /\ response.body[1].quality = "good"
    /\ response.body[3].quality = "good"
    /\ response.body[3].issues = << "No issues detected" >>

\* C3: an array with no pixel makes the single-image assessment fail; it is never
\* answered with a normal result.
EmptyMapRejected ==
    (AnalyzeAnswered /\ segmentation # None /\ ArraySize(segmentation.map) = 0)
        => response.status # 200

\* The share of the image's pixels labelled sidewalk (id 1) is at most 5%.
LittleSidewalk(map) == 100 * CountEqual(map, 1) <= 5 * ArraySize(map)

\* C4: for every non-empty array with at most 5% sidewalk, whatever else it holds,
\* the assessment is none / low / not detected with the one issue "No sidewalk
\* visible in image".
NoSidewalkVerdict ==
    (AnalyzeAnswered /\ segmentation # None /\ ArraySize(segmentation.map) > 0
       /\ LittleSidewalk(segmentation.map))
        => /\ response.status = 200
           /\ response.body.quality = "none"
           /\ response.body.confidence = "low"
           /\ response.body.sidewalkDetected = FALSE
           /\ response.body.issues = << "No sidewalk visible in image" >>

\* The entry of a class in a distribution, if it has one.
Entries(dist, name) == { k \in 1..Len(dist) : dist[k].key = name }

\* C5: every entry of the distribution is of a class covering strictly more than
\* 0.5% of the image, its percentage being pixels/total*100; every detection is
\* strictly above 1% and names an entry of the distribution; every obstruction is
\* an entry too, so above 0.5%.
SignificanceFloors ==
    analysis # None =>
      LET dist  == analysis.class_distribution
          total == ArraySize(segmentation.map)
      IN  /\ \A k \in 1..Len(dist) :
               /\ 200 * dist[k].value.pixels > total
               /\ dist[k].value.percentage = Percentage(dist[k].value.pixels, total)
               /\ Gt(dist[k].value.percentage, Half)
          /\ \A k \in 1..Len(analysis.obstructions) :
               /\ Gt(analysis.obstructions[k].percentage, Half)
               /\ \E j \in Entries(dist, analysis.obstructions[k].class) :
                    dist[j].value.percentage = analysis.obstructions[k].percentage
          /\ (AnalyzeAnswered /\ response.status = 200) =>
               \A k \in 1..Len(response.body.detections) :
                 LET d == response.body.detections[k] IN
                 /\ Gt(d.pixel_percentage, Float(1))
                 /\ \E j \in Entries(dist, d.class_name) :
                      dist[j].value.percentage = d.pixel_percentage

\* A person at exactly 0.5% is left out, a car at 0.75% is an entry and an
\* obstruction but no detection, the sidewalk is an entry and a detection.
SignificanceWitness ==
    /\ AnalyzeAnswered /\ response.status = 200 /\ analysis # None
    /\ 200 * CountEqual(segmentation.map, 11) = ArraySize(segmentation.map)
    /\ Entries(analysis.class_distribution, "person") = {}
    /\ Entries(analysis.class_distribution, "car") # {}
    /\ \A k \in 1..Len(response.body.detections) : response.body.detections[k].class_name # "car"
    /\ \E k \in 1..Len(response.body.detections) : response.body.detections[k].class_name = "sidewalk"

Rank(confidence) == CASE confidence = "low" -> 0 [] confidence = "medium" -> 1 [] confidence = "high" -> 2

\* Sidewalk percentages from 0% to 30% as the code computes them: at each of the
\* thresholds 5, 10 and 20, a quarter of a percent under and over it, and between.
SidewalkLevels ==
    { Percentage(pixel_count, ImagePixels) :
        pixel_count \in {0, 3, 19, 20, 21, 28, 39, 40, 41, 56, 79, 80, 81, 120} }

\* C6: with the obstructions held fixed, a larger sidewalk percentage never gets a
\* lower confidence from determine_quality (low < medium < high).
ConfidenceMonotone ==
    (AnalyzeAnswered /\ response.status = 200 /\ analysis # None) =>
      \A s \in SidewalkLevels :
        LET here  == Rank(response.body.confidence)
            there == Rank(determine_quality(s, analysis.obstructions).confidence)
        IN  /\ Ge(analysis.sidewalk_percentage, s) => there <= here
            /\ Ge(s, analysis.sidewalk_percentage) => there >= here

\* A wide sidewalk with minor obstructions: medium, as in the bands below it.
ConfidenceWitness ==
    /\ AnalyzeAnswered /\ response.status = 200 /\ analysis # None
    /\ Gt(analysis.sidewalk_percentage, Float(20))
    /\ response.body.quality = "fair"
    /\ response.body.confidence = "medium"
    /\ Len(analysis.obstructions) = 2

\* The ids of the vocabulary.
KnownIds == 0..18

\* C7: ids outside [0, 19) are ignored: no error, and every entry of the
\* distribution is the entry of an id of the vocabulary, with that id's pixel
\* count and its percentage of the whole image.
StrayIdsIgnored ==
    (AnalyzeAnswered /\ segmentation # None) =>
      /\ response.status = 200
      /\ analysis # None
      /\ \A k \in 1..Len(analysis.class_distribution) :
           LET e == analysis.class_distribution[k] IN
           \E id \in KnownIds :
             /\ CITYSCAPES_CLASSES[id + 1] = e.key
             /\ e.value.pixels = CountEqual(segmentation.map, id)
             /\ e.value.percentage = Percentage(e.value.pixels, ArraySize(segmentation.map))

\* Every result the state holds: the one of /analyze, those of a batch.
ResultsHeld ==
    (IF AnalyzeAnswered /\ response.status = 200 THEN { response.body } ELSE {})
    \cup { results[i] : i \in 1..Len(results) }
    \cup (IF BatchAnswered THEN { response.body[i] : i \in 1..Len(response.body) } ELSE {})

\* C8: every result has at least one issue.  Where the classifier returns none the
\* result has exactly "No issues detected", which happens only for quality good
\* (sidewalk above 20%, obstructions 5% or less in total); otherwise the result has
\* the classifier's issues.
IssuesNeverEmpty ==
    /\ \A r \in ResultsHeld : r.issues # << >>
    /\ \A r \in ResultsHeld :
         (\E k \in 1..Len(r.issues) : r.issues[k] = "No issues detected") =>
           r.quality = "good" /\ r.issues = << "No issues detected" >>
    /\ (AnalyzeAnswered /\ response.status = 200) =>
         LET verdict == determine_quality(analysis.sidewalk_percentage, analysis.obstructions) IN
         /\ verdict.issues = << >> => response.body.issues = << "No issues detected" >>
         /\ verdict.issues # << >> => response.body.issues = verdict.issues
         /\ response.body.issues = << "No issues detected" >> =>
              /\ Gt(analysis.sidewalk_percentage, Float(20))
              /\ ~Gt(SumPercentage(analysis.obstructions), Float(5))

\* A wide sidewalk with a car at exactly 5%: good, and the sentinel alone.
SentinelWitness ==
    /\ AnalyzeAnswered /\ response.status = 200
    /\ response.body.issues = << "No issues detected" >>
    /\ response.body.quality = "good"
    /\ SumPercentage(analysis.obstructions) = Float(5)

\* C9: the bands of determine_quality for a detected sidewalk, all comparisons
\* strict: above 20% sidewalk, obstructions above 15% in total give poor/high and
\* "<N> obstruction(s) detected blocking sidewalk", above 5% fair/medium and "Minor
\* obstructions detected on sidewalk", else good/high and no band issue; above 10%
\* sidewalk fair/medium and "Sidewalk partially visible", "with obstructions" when
\* they total above 10%; else poor/medium and "Limited sidewalk visible in image".
BandTable ==
    (AnalyzeAnswered /\ response.status = 200 /\ Gt(analysis.sidewalk_percentage, Float(5))) =>
      LET s == analysis.sidewalk_percentage
          T == SumPercentage(analysis.obstructions)
          N == Len(analysis.obstructions)
          r == response.body
          Is(quality, confidence, first) ==
              r.quality = quality /\ r.confidence = confidence /\ r.issues[1] = first
      IN  /\ (Gt(s, Float(20)) /\ Gt(T, Float(15))) =>
                Is("poor", "high", ToString(N) \o " obstruction(s) detected blocking sidewalk")
          /\ (Gt(s, Float(20)) /\ Gt(T, Float(5)) /\ ~Gt(T, Float(15))) =>
                Is("fair", "medium", "Minor obstructions detected on sidewalk")
          /\ (Gt(s, Float(20)) /\ ~Gt(T, Float(5))) =>
                Is("good", "high", "No issues detected")
          /\ (Gt(s, Float(10)) /\ ~Gt(s, Float(20)) /\ Gt(T, Float(10))) =>
                Is("fair", "medium", "Sidewalk partially visible with obstructions")
          /\ (Gt(s, Float(10)) /\ ~Gt(s, Float(20)) /\ ~Gt(T, Float(10))) =>
                Is("fair", "medium", "Sidewalk partially visible")
          /\ ~Gt(s, Float(10)) =>
                Is("poor", "medium", "Limited sidewalk visible in image")

\* Obstructions at exactly 15% on a wide sidewalk: the lower branch, fair.
BandBoundaryWitness ==
    /\ AnalyzeAnswered /\ response.status = 200
    /\ Gt(analysis.sidewalk_percentage, Float(20))
    /\ SumPercentage(analysis.obstructions) = Float(15)
    /\ response.body.quality = "fair"
    /\ response.body.issues[1] = "Minor obstructions detected on sidewalk"

\* The obstruction classes in the order issues are due in.
IssueOrder == << "car", "truck", "bus", "motorcycle", "bicycle", "person" >>

\* The issue lines due for a distribution: one per class of IssueOrder above 5%.
LinesDue(dist) ==
    LET over == SelectSeq(IssueOrder,
                          LAMBDA c : \E j \in Entries(dist, c) : Gt(dist[j].value.percentage, Float(5)))
    IN  [k \in 1..Len(over) |->
            LET j == CHOOSE j \in Entries(dist, over[k]) : TRUE
            IN  over[k] \o " detected (" \o FormatPct(dist[j].value.percentage) \o "% of image)"]

\* The issues a band can give, for N obstructions.
BandIssues(N) ==
    { ToString(N) \o " obstruction(s) detected blocking sidewalk",
      "Minor obstructions detected on sidewalk",
      "Sidewalk partially visible with obstructions",
      "Sidewalk partially visible",
      "Limited sidewalk visible in image" }

\* C10: for a detected sidewalk the issues are at most one issue of the band, then
\* one "<class> detected" line per obstruction class above 5%, in the order car,
\* truck, bus, motorcycle, bicycle, person whatever the order of the ids in the
\* array or of the entries in the distribution; obstructions of 5% or less have
\* no line.
ObstructionLinesOrdered ==
    (AnalyzeAnswered /\ response.status = 200 /\ Gt(analysis.sidewalk_percentage, Float(5))) =>
      LET due    == LinesDue(analysis.class_distribution)
          issues == response.body.issues
      IN  \/ issues = << "No issues detected" >> /\ due = << >>
          \/ issues = due /\ due # << >>
          \/ /\ Len(issues) = Len(due) + 1
             /\ Tail(issues) = due
             /\ issues[1] \in BandIssues(Len(analysis.obstructions))

\* A person entered in the distribution before a car, both above 5%, and a truck
\* at exactly 5%: the car's line comes first, the truck has none but is counted.
ObstructionLinesWitness ==
    /\ AnalyzeAnswered /\ response.status = 200
    /\ Gt(analysis.sidewalk_percentage, Float(5))
    /\ Len(analysis.obstructions) = 3
    /\ \E i, j \in 1..Len(analysis.class_distribution) :
         /\ i < j
         /\ analysis.class_distribution[i].key = "person"
         /\ analysis.class_distribution[j].key = "car"
    /\ Len(response.body.issues) = 3
    /\ response.body.issues[2] = "car detected (5.2% of image)"
    /\ response.body.issues[3] = "person detected (5.2% of image)"

=============================================================================
